---- MODULE Spec2Model ----
EXTENDS Integers, Sequences, FiniteSets, TLC

(***************************************************************************)
(* Unknown-field preservation and extension access of prost.               *)
(*                                                                         *)
(* Integers keep their width: a u64 is a sequence of 64 bits and a u32 a   *)
(* sequence of 32 bits, least significant bit first.  A buffer is a        *)
(* sequence of bytes (0..255); reading from a buffer returns the remaining *)
(* bytes as `rest`.                                                        *)
(***************************************************************************)

MaxCalls == 3

Zeros(n) == [i \in 1..n |-> 0]

Ones(n) == [i \in 1..n |-> 1]

RECURSIVE NatToBits(_, _)
NatToBits(n, w) == IF w = 0 THEN <<>> ELSE <<n % 2>> \o NatToBits(n \div 2, w - 1)

RECURSIVE BitsToNat(_)
BitsToNat(b) == IF b = <<>> THEN 0 ELSE b[1] + 2 * BitsToNat(Tail(b))

IsZeroFrom(b, k) == \A i \in k..Len(b) : b[i] = 0

IsZero(b) == IsZeroFrom(b, 1)

\* u64::from(x) for a u32 (or narrower) x
ZeroExt64(b) == b \o Zeros(64 - Len(b))

\* `x as u64` for an i32 x: sign extension
SignExt64(b) == b \o [i \in 1..(64 - Len(b)) |-> b[Len(b)]]

\* `x as u32` for a u64 x: truncation
Trunc32(b) == SubSeq(b, 1, 32)

\* value |= u64::from(low7) << sh, on a value whose bits above sh are still 0
OrShift(value, low7, sh) ==
    [i \in 1..64 |-> IF i > sh /\ i <= sh + 7 THEN NatToBits(low7, 7)[i - sh] ELSE value[i]]

\* Does the u64 `len` exceed the small natural n (n < 2^16)?
ExceedsNat(len, n) == ~IsZeroFrom(len, 17) \/ BitsToNat(SubSeq(len, 1, 16)) > n

(***************************************************************************)
(* The wire primitive codec (crate::encoding), consumed by the core.       *)
(***************************************************************************)

WireTypes == {"Varint", "SixtyFourBit", "LengthDelimited", "StartGroup", "EndGroup", "ThirtyTwoBit"}

WireCode(wt) ==
    CASE wt = "Varint" -> 0
      [] wt = "SixtyFourBit" -> 1
      [] wt = "LengthDelimited" -> 2
      [] wt = "StartGroup" -> 3
      [] wt = "EndGroup" -> 4
      [] wt = "ThirtyTwoBit" -> 5

RECURSIVE encode_varint(_)
encode_varint(value) ==
    IF IsZeroFrom(value, 8)
    THEN <<BitsToNat(SubSeq(value, 1, 7))>>
    ELSE <<BitsToNat(SubSeq(value, 1, 7)) + 128>>
         \o encode_varint(SubSeq(value, 8, 64) \o Zeros(7))

\* The byte's 7 payload bits go to bit count*7; a byte below 0x80 ends the varint
RECURSIVE decode_varint_loop(_, _, _)
decode_varint_step(buf, count, v) ==
    IF Head(buf) < 128
    THEN [ok |-> TRUE, value |-> v, rest |-> Tail(buf)]
    ELSE decode_varint_loop(Tail(buf), count + 1, v)

decode_varint_loop(buf, count, value) ==
    IF count = 10 \/ buf = <<>>
    THEN [ok |-> FALSE, value |-> Zeros(64), rest |-> buf]
    ELSE decode_varint_step(buf, count, OrShift(value, Head(buf) % 128, count * 7))

decode_varint(buf) == decode_varint_loop(buf, 0, Zeros(64))

\* index (0-based) of the highest set bit of value | 1
HighBit(value) ==
    LET set == {i \in 1..64 : value[i] = 1} \cup {1}
    IN  (CHOOSE i \in set : \A j \in set : j <= i) - 1

\* ((((value | 1).leading_zeros() ^ 63) * 9 + 73) / 64)
encoded_len_varint(value) == (HighBit(value) * 9 + 73) \div 64

\* key = (tag << 3) | wire_type, a u32, written as a varint
encode_key(tag, wt) ==
    encode_varint(ZeroExt64(NatToBits(WireCode(wt), 3) \o NatToBits(tag, 29)))

key_len(tag) == encoded_len_varint(ZeroExt64(Zeros(3) \o NatToBits(tag, 29)))

WireTypeOf(code) == CHOOSE wt \in WireTypes : WireCode(wt) = code

\* decode_key on the decoded varint r: the key must fit a u32, name a wire
\* type and carry a tag >= 1
key_of(buf, r) ==
    IF /\ r.ok
       /\ IsZeroFrom(r.value, 33)
       /\ BitsToNat(SubSeq(r.value, 1, 3)) <= 5
       /\ BitsToNat(SubSeq(r.value, 4, 32)) >= 1
    THEN [ok |-> TRUE, tag |-> BitsToNat(SubSeq(r.value, 4, 32)),
          wire_type |-> WireTypeOf(BitsToNat(SubSeq(r.value, 1, 3))),
          rest |-> r.rest]
    ELSE [ok |-> FALSE, tag |-> 0, wire_type |-> "Varint", rest |-> buf]

decode_key(buf) == key_of(buf, decode_varint(buf))

RECURSIVE BitsToBytes(_)
BitsToBytes(b) ==
    IF b = <<>> THEN <<>>
    ELSE <<BitsToNat(SubSeq(b, 1, 8))>> \o BitsToBytes(SubSeq(b, 9, Len(b)))

RECURSIVE BytesToBits(_)
BytesToBits(bytes) ==
    IF bytes = <<>> THEN <<>> ELSE NatToBits(Head(bytes), 8) \o BytesToBits(Tail(bytes))

put_u32_le(value) == BitsToBytes(value)

put_u64_le(value) == BitsToBytes(value)

Advance(buf, n) == SubSeq(buf, n + 1, Len(buf))

\* The payload of length prefix r (a decoded varint), or buffer underflow
take_len(buf, r) ==
    IF ~r.ok \/ ExceedsNat(r.value, Len(r.rest))
    THEN [ok |-> FALSE, value |-> <<>>, rest |-> buf]
    ELSE [ok |-> TRUE, value |-> SubSeq(r.rest, 1, BitsToNat(SubSeq(r.value, 1, 16))),
          rest |-> Advance(r.rest, BitsToNat(SubSeq(r.value, 1, 16)))]

\* encoding::bytes::merge: wire type check, length prefix, then the payload
bytes_merge(wt, buf) ==
    IF wt # "LengthDelimited"
    THEN [ok |-> FALSE, value |-> <<>>, rest |-> buf]
    ELSE take_len(buf, decode_varint(buf))

OkRest(r) == [ok |-> r.ok, rest |-> r.rest]

SkipFixed(buf, n) ==
    IF Len(buf) < n THEN [ok |-> FALSE, rest |-> buf] ELSE [ok |-> TRUE, rest |-> Advance(buf, n)]

\* encoding::skip_field: the generic skip dispatcher; a group is skipped
\* field by field up to its matching end-group key.
RECURSIVE skip_field(_, _, _)
skip_group_next(tag, buf, r) ==
    IF ~r.ok THEN [ok |-> FALSE, rest |-> buf] ELSE skip_field("StartGroup", tag, r.rest)

skip_group_key(tag, buf, k) ==
    IF ~k.ok THEN [ok |-> FALSE, rest |-> buf]
    ELSE IF k.wire_type = "EndGroup"
         THEN IF k.tag # tag THEN [ok |-> FALSE, rest |-> buf]
              ELSE [ok |-> TRUE, rest |-> k.rest]
         ELSE skip_group_next(tag, buf, skip_field(k.wire_type, k.tag, k.rest))

skip_field(wt, tag, buf) ==
    CASE wt = "Varint" -> OkRest(decode_varint(buf))
      [] wt = "ThirtyTwoBit" -> SkipFixed(buf, 4)
      [] wt = "SixtyFourBit" -> SkipFixed(buf, 8)
      [] wt = "LengthDelimited" -> OkRest(bytes_merge(wt, buf))
      [] wt = "StartGroup" -> skip_group_key(tag, buf, decode_key(buf))
      [] wt = "EndGroup" -> [ok |-> FALSE, rest |-> buf]

\* std::str::from_utf8(bytes).is_ok()
RECURSIVE Utf8Valid(_)
Utf8Valid(bytes) ==
    LET n == Len(bytes)
        b1 == bytes[1]
        cont(i, lo, hi) == i <= n /\ bytes[i] >= lo /\ bytes[i] <= hi
    IN  IF n = 0 THEN TRUE
        ELSE IF b1 < 128 THEN Utf8Valid(Tail(bytes))
        ELSE IF b1 >= 194 /\ b1 <= 223
             THEN cont(2, 128, 191) /\ Utf8Valid(Advance(bytes, 2))
        ELSE IF b1 >= 224 /\ b1 <= 239
             THEN /\ cont(2, IF b1 = 224 THEN 160 ELSE 128, IF b1 = 237 THEN 159 ELSE 191)
                  /\ cont(3, 128, 191)
                  /\ Utf8Valid(Advance(bytes, 3))
        ELSE IF b1 >= 240 /\ b1 <= 244
             THEN /\ cont(2, IF b1 = 240 THEN 144 ELSE 128, IF b1 = 244 THEN 143 ELSE 191)
                  /\ cont(3, 128, 191)
                  /\ cont(4, 128, 191)
                  /\ Utf8Valid(Advance(bytes, 4))
        ELSE FALSE

(***************************************************************************)
(* UnknownField and UnknownFieldData (src/unknown_field_set.rs).           *)
(* An UnknownFieldData is [variant, value]; an UnknownField [tag, data].   *)
(***************************************************************************)

UnknownFieldData(variant, value) == [variant |-> variant, value |-> value]

UnknownField(tag, data) == [tag |-> tag, data |-> data]

NoField == UnknownField(0, UnknownFieldData("Varint", Zeros(64)))

\* Ok(Some(data)) of the closure f, from a primitive's result r, or its error
SomeData(variant, buf, r) ==
    IF r.ok
    THEN [ok |-> TRUE, some |-> TRUE, data |-> UnknownFieldData(variant, r.value),
          rest |-> r.rest]
    ELSE [ok |-> FALSE, some |-> FALSE, data |-> NoField.data, rest |-> buf]

\* Ok(None) of the closure f after a skipped group, or the skip's error
NoData(buf, r) ==
    [ok |-> r.ok, some |-> FALSE, data |-> NoField.data, rest |-> IF r.ok THEN r.rest ELSE buf]

GetFixed(buf, n) ==
    IF Len(buf) < n
    THEN [ok |-> FALSE, value |-> <<>>, rest |-> buf]
    ELSE [ok |-> TRUE, value |-> BytesToBits(SubSeq(buf, 1, n)), rest |-> Advance(buf, n)]

\* The closure f of UnknownField::parse: Result<Option<UnknownFieldData>, DecodeError>
parse_f(tag, wire_type, buf) ==
    CASE wire_type = "Varint" -> SomeData("Varint", buf, decode_varint(buf))
      [] wire_type = "ThirtyTwoBit" -> SomeData("ThirtyTwoBit", buf, GetFixed(buf, 4))
      [] wire_type = "SixtyFourBit" -> SomeData("SixtyFourBit", buf, GetFixed(buf, 8))
      [] wire_type = "LengthDelimited" ->
           SomeData("LengthDelimited", buf, bytes_merge(wire_type, buf))
      [] wire_type = "StartGroup" -> NoData(buf, skip_field("StartGroup", tag, buf))
      [] wire_type = "EndGroup" ->
           [ok |-> FALSE, some |-> FALSE, data |-> NoField.data, rest |-> buf]

\* f(wire_type).map_or_else(|e| Some(Err(e)), |opt| opt.map(|data| Ok(UnknownField { tag, data })))
parse_map(tag, r) ==
    IF ~r.ok THEN [opt |-> "Some", ok |-> FALSE, field |-> NoField, rest |-> r.rest]
    ELSE IF r.some
         THEN [opt |-> "Some", ok |-> TRUE, field |-> UnknownField(tag, r.data),
               rest |-> r.rest]
         ELSE [opt |-> "None", ok |-> TRUE, field |-> NoField, rest |-> r.rest]

\* UnknownField::parse: Option<Result<UnknownField, DecodeError>>;
\* opt = "None" is the group that was skipped and is not stored.
parse(tag, wire_type, buf) == parse_map(tag, parse_f(tag, wire_type, buf))

\* Mutant of field_encode: the SixtyFourBit arm writes the ThirtyTwoBit key
field_encode_wrong_key(f) ==
    CASE f.data.variant = "Varint" ->
           encode_key(f.tag, "Varint") \o encode_varint(f.data.value)
      [] f.data.variant = "SixtyFourBit" ->
           encode_key(f.tag, "ThirtyTwoBit") \o put_u64_le(f.data.value)
      [] f.data.variant = "LengthDelimited" ->
           encode_key(f.tag, "LengthDelimited")
           \o encode_varint(NatToBits(Len(f.data.value), 64))
           \o f.data.value
      [] f.data.variant = "ThirtyTwoBit" ->
           encode_key(f.tag, "ThirtyTwoBit") \o put_u32_le(f.data.value)

\* UnknownField::encode
field_encode(f) ==
    CASE f.data.variant = "Varint" ->
           encode_key(f.tag, "Varint") \o encode_varint(f.data.value)
      [] f.data.variant = "SixtyFourBit" ->
           encode_key(f.tag, "SixtyFourBit") \o put_u64_le(f.data.value)
      [] f.data.variant = "LengthDelimited" ->
           encode_key(f.tag, "LengthDelimited")
           \o encode_varint(NatToBits(Len(f.data.value), 64))
           \o f.data.value
      [] f.data.variant = "ThirtyTwoBit" ->
           encode_key(f.tag, "ThirtyTwoBit") \o put_u32_le(f.data.value)

\* Mutant of field_encoded_len: the ThirtyTwoBit arm counts 8 payload bytes
field_encoded_len_wide(f) ==
    CASE f.data.variant = "Varint" -> key_len(f.tag) + encoded_len_varint(f.data.value)
      [] f.data.variant = "SixtyFourBit" -> key_len(f.tag) + 8
      [] f.data.variant = "LengthDelimited" ->
           key_len(f.tag) + encoded_len_varint(NatToBits(Len(f.data.value), 64))
           + Len(f.data.value)
      [] f.data.variant = "ThirtyTwoBit" -> key_len(f.tag) + 8

\* UnknownField::encoded_len, through uint64/fixed64/bytes/fixed32::encoded_len
field_encoded_len(f) ==
    CASE f.data.variant = "Varint" -> key_len(f.tag) + encoded_len_varint(f.data.value)
      [] f.data.variant = "SixtyFourBit" -> key_len(f.tag) + 8
      [] f.data.variant = "LengthDelimited" ->
           key_len(f.tag) + encoded_len_varint(NatToBits(Len(f.data.value), 64))
           + Len(f.data.value)
      [] f.data.variant = "ThirtyTwoBit" -> key_len(f.tag) + 4

(***************************************************************************)
(* UnknownFieldSet: data is Option<Box<BTreeMap<u32, UnknownField>>>,      *)
(* modelled as [some, map]; map is a function from the stored tags.        *)
(***************************************************************************)

EmptyMap == [t \in {} |-> NoField]

None == [some |-> FALSE, map |-> EmptyMap]

MapInsert(m, tag, field) == [t \in DOMAIN m \cup {tag} |-> IF t = tag THEN field ELSE m[t]]

\* Mutant of insert: the Some arm takes the map out of self.data, inserts
\* into it and drops it
insert_taken(d, tag, field) ==
    IF d.some THEN [some |-> FALSE, map |-> EmptyMap]
    ELSE [some |-> TRUE, map |-> MapInsert(EmptyMap, tag, field)]

\* Mutant of insert: an entry already present is kept (first write wins)
insert_keep_first(d, tag, field) ==
    IF d.some /\ tag \in DOMAIN d.map THEN d
    ELSE [some |-> TRUE, map |-> MapInsert(d.map, tag, field)]

\* UnknownFieldSet::insert
insert(d, tag, field) ==
    IF d.some
    THEN [some |-> TRUE, map |-> MapInsert(d.map, tag, field)]
    ELSE [some |-> TRUE, map |-> MapInsert(EmptyMap, tag, field)]

MaxKey(keys) == CHOOSE k \in keys : \A j \in keys : k >= j

\* Mutant of MapIter: the entries in descending key order
RECURSIVE MapIterDescending(_)
MapIterDescending(m) ==
    IF DOMAIN m = {} THEN <<>>
    ELSE <<m[MaxKey(DOMAIN m)]>>
         \o MapIterDescending([t \in DOMAIN m \ {MaxKey(DOMAIN m)} |-> m[t]])

MinKey(keys) == CHOOSE k \in keys : \A j \in keys : k <= j

\* BTreeMap::iter: the entries in ascending key order
RECURSIVE MapIter(_)
MapIter(m) ==
    IF DOMAIN m = {} THEN <<>>
    ELSE LET k == MinKey(DOMAIN m)
         IN  <<m[k]>> \o MapIter([t \in DOMAIN m \ {k} |-> m[t]])

RECURSIVE EncodeAll(_)
EncodeAll(fields) ==
    IF fields = <<>> THEN <<>> ELSE field_encode(Head(fields)) \o EncodeAll(Tail(fields))

\* UnknownFieldSet::encode
encode(d) == IF d.some THEN EncodeAll(MapIter(d.map)) ELSE <<>>

RECURSIVE FoldLen(_, _)
FoldLen(len, fields) ==
    IF fields = <<>> THEN len ELSE FoldLen(len + field_encoded_len(Head(fields)), Tail(fields))

\* UnknownFieldSet::encoded_len
encoded_len(d) == IF d.some THEN FoldLen(0, MapIter(d.map)) ELSE 0

\* Mutant of skip_result: the parse result is inserted before its error is looked at
skip_result_insert_first(d, tag, p) ==
    IF p.opt = "None" THEN [data |-> d, ok |-> TRUE, stored |-> FALSE, rest |-> p.rest]
    ELSE [data |-> insert(d, tag, p.field), ok |-> p.ok, stored |-> TRUE, rest |-> p.rest]

\* .map_or(Ok(()), |res| Ok(self.insert(tag, res?))) on the parse result p
skip_result(d, tag, p) ==
    IF p.opt = "None" THEN [data |-> d, ok |-> TRUE, stored |-> FALSE, rest |-> p.rest]
    ELSE IF ~p.ok THEN [data |-> d, ok |-> FALSE, stored |-> FALSE, rest |-> p.rest]
    ELSE [data |-> insert(d, tag, p.field), ok |-> TRUE, stored |-> TRUE, rest |-> p.rest]

\* UnknownFieldSet::skip_unknown_field: the new data, the result and the
\* buffer left after the call
skip_unknown_field(d, tag, wire_type, buf) ==
    skip_result(d, tag, parse(tag, wire_type, buf))

(***************************************************************************)
(* Scalar wrapper adapters (src/types.rs).  A bool is a BOOLEAN; u32, i32  *)
(* and f32 are 32 bits; u64, i64 and f64 are 64 bits (a float is its       *)
(* IEEE-754 bit pattern); String, Vec<u8> and Bytes are byte sequences;    *)
(* unit is <<>>.                                                           *)
(***************************************************************************)

WrapperTypes ==
    {"bool", "u32", "u64", "i32", "i64", "f32", "f64", "String", "Vec<u8>", "Bytes", "()"}

IsBytesType(ty) == ty \in {"String", "Vec<u8>", "Bytes"}

\* Default::default()
Default(ty) ==
    CASE ty = "bool" -> FALSE
      [] ty \in {"u32", "i32", "f32"} -> Zeros(32)
      [] ty \in {"u64", "i64", "f64"} -> Zeros(64)
      [] OTHER -> <<>>

\* The guard of encode_raw and encoded_len: *self, *self != 0, *self != 0.0
\* (false for +0.0 and for -0.0, true for a NaN), !self.is_empty()
NonDefault(ty, v) ==
    CASE ty = "bool" -> v
      [] ty \in {"u32", "u64", "i32", "i64"} -> ~IsZero(v)
      [] ty \in {"f32", "f64"} -> ~IsZero(SubSeq(v, 1, Len(v) - 1))
      [] IsBytesType(ty) -> v # <<>>
      [] ty = "()" -> FALSE

\* The value a scalar codec writes as a varint
AsVarint(ty, v) ==
    CASE ty = "bool" -> NatToBits(IF v THEN 1 ELSE 0, 64)
      [] ty = "u32" -> ZeroExt64(v)
      [] ty = "i32" -> SignExt64(v)
      [] OTHER -> v

\* encoding::{bool, uint32, uint64, int32, int64, float, double, string, bytes}::encode
scalar_encode(ty, tag, v) ==
    CASE ty \in {"bool", "u32", "u64", "i32", "i64"} ->
           encode_key(tag, "Varint") \o encode_varint(AsVarint(ty, v))
      [] ty = "f32" -> encode_key(tag, "ThirtyTwoBit") \o put_u32_le(v)
      [] ty = "f64" -> encode_key(tag, "SixtyFourBit") \o put_u64_le(v)
      [] IsBytesType(ty) ->
           encode_key(tag, "LengthDelimited") \o encode_varint(NatToBits(Len(v), 64)) \o v

\* encoding::{...}::encoded_len
scalar_encoded_len(ty, tag, v) ==
    CASE ty = "bool" -> key_len(tag) + 1
      [] ty \in {"u32", "u64", "i32", "i64"} -> key_len(tag) + encoded_len_varint(AsVarint(ty, v))
      [] ty = "f32" -> key_len(tag) + 4
      [] ty = "f64" -> key_len(tag) + 8
      [] IsBytesType(ty) -> key_len(tag) + encoded_len_varint(NatToBits(Len(v), 64)) + Len(v)

\* The value a varint scalar codec reads from the decoded varint
FromVarint(ty, u) ==
    CASE ty = "bool" -> ~IsZero(u)
      [] ty \in {"u32", "i32"} -> Trunc32(u)
      [] OTHER -> u

varint_merged(ty, v, buf, r) ==
    IF r.ok THEN [ok |-> TRUE, value |-> FromVarint(ty, r.value), rest |-> r.rest]
    ELSE [ok |-> FALSE, value |-> v, rest |-> buf]

fixed_merged(v, buf, r) == IF r.ok THEN r ELSE [ok |-> FALSE, value |-> v, rest |-> buf]

string_merged(r) ==
    IF r.ok /\ Utf8Valid(r.value) THEN r ELSE [ok |-> FALSE, value |-> <<>>, rest |-> r.rest]

\* The wire type a scalar codec accepts (check_wire_type)
ScalarWireType(ty) ==
    CASE ty \in {"bool", "u32", "u64", "i32", "i64"} -> "Varint"
      [] ty = "f32" -> "ThirtyTwoBit"
      [] ty = "f64" -> "SixtyFourBit"
      [] OTHER -> "LengthDelimited"

\* encoding::{...}::merge: [ok, value, rest]; a failed merge of a String
\* leaves it empty, any other failed merge leaves the value as it was
scalar_merge(ty, wire_type, v, buf) ==
    CASE wire_type # ScalarWireType(ty) ->
           [ok |-> FALSE, value |-> IF ty = "String" THEN <<>> ELSE v, rest |-> buf]
      [] ty \in {"bool", "u32", "u64", "i32", "i64"} ->
           varint_merged(ty, v, buf, decode_varint(buf))
      [] ty = "f32" -> fixed_merged(v, buf, GetFixed(buf, 4))
      [] ty = "f64" -> fixed_merged(v, buf, GetFixed(buf, 8))
      [] ty \in {"Vec<u8>", "Bytes"} -> fixed_merged(v, buf, bytes_merge(wire_type, buf))
      [] ty = "String" -> string_merged(bytes_merge(wire_type, buf))

\* Mutant of encode_raw: the default value is written like any other
encode_raw_unguarded(ty, v) == IF ty = "()" THEN <<>> ELSE scalar_encode(ty, 1, v)

\* Message::encode_raw of the wrapper
encode_raw(ty, v) ==
    IF ty = "()" THEN <<>>
    ELSE IF NonDefault(ty, v) THEN scalar_encode(ty, 1, v) ELSE <<>>

\* Message::encoded_len of the wrapper
wrapper_encoded_len(ty, v) ==
    CASE ty = "()" -> 0
      [] ty = "bool" -> IF v THEN 2 ELSE 0
      [] OTHER -> IF NonDefault(ty, v) THEN scalar_encoded_len(ty, 1, v) ELSE 0

skipped(v, r) == [ok |-> r.ok, value |-> v, rest |-> r.rest]

\* Message::merge_field of the wrapper: [ok, value, rest]
merge_field(ty, v, tag, wire_type, buf) ==
    IF ty # "()" /\ tag = 1
    THEN scalar_merge(ty, wire_type, v, buf)
    ELSE skipped(v, skip_field(wire_type, tag, buf))

\* Message::clear of the wrapper
wrapper_clear(ty, v) == Default(ty)

\* !x
Not(b) == [i \in 1..Len(b) |-> 1 - b[i]]

\* x >> 1 on a signed integer: the sign bit is shifted in
Sar1(b) == Tail(b) \o <<b[Len(b)]>>

\* x >> 1 on an unsigned integer
Shr1(b) == Tail(b) \o <<0>>

\* The zig-zag mapping of a signed integer: (n << 1) ^ (n >> (width - 1))
ZigZag(n) ==
    IF n[Len(n)] = 1 THEN Not(<<0>> \o SubSeq(n, 1, Len(n) - 1))
    ELSE <<0>> \o SubSeq(n, 1, Len(n) - 1)

\* The zig-zag unmapping: (u >> 1) ^ -(u & 1)
UnZigZag(u) == IF u[1] = 1 THEN Not(Shr1(u)) ELSE Shr1(u)

\* The test's helpers sint32 / sint64: i1 = i >> 1; if i & 1 == 1 { i1 = !i1 }
sint32(i) == IF i[1] = 1 THEN Not(Sar1(i)) ELSE Sar1(i)

sint64(i) == IF i[1] = 1 THEN Not(Sar1(i)) ELSE Sar1(i)

\* Mutant of decode_from_unknown: i32 and i64 zig-zag-unmap a Varint
decode_from_unknown_zigzag(ty, f) ==
    LET variant == f.data.variant
        Ok(v) == [ok |-> TRUE, value |-> v]
        Err == [ok |-> FALSE, value |-> Default(ty)]
    IN  CASE ty = "bool" ->
               IF variant = "Varint" THEN Ok(~IsZero(f.data.value)) ELSE Err
          [] ty = "u32" ->
               IF variant = "Varint" THEN Ok(Trunc32(f.data.value))
               ELSE IF variant = "ThirtyTwoBit" THEN Ok(f.data.value)
               ELSE Err
          [] ty = "i32" ->
               IF variant = "Varint" THEN Ok(UnZigZag(Trunc32(f.data.value)))
               ELSE IF variant = "ThirtyTwoBit" THEN Ok(f.data.value)
               ELSE Err
          [] ty = "u64" ->
               IF variant \in {"SixtyFourBit", "Varint"} THEN Ok(f.data.value) ELSE Err
          [] ty = "i64" ->
               IF variant = "Varint" THEN Ok(UnZigZag(f.data.value))
               ELSE IF variant = "SixtyFourBit" THEN Ok(f.data.value)
               ELSE Err
          [] ty = "f32" -> IF variant = "ThirtyTwoBit" THEN Ok(f.data.value) ELSE Err
          [] ty = "f64" -> IF variant = "SixtyFourBit" THEN Ok(f.data.value) ELSE Err
          [] ty = "String" ->
               IF variant = "LengthDelimited" /\ Utf8Valid(f.data.value)
               THEN Ok(f.data.value) ELSE Err
          [] ty \in {"Vec<u8>", "Bytes"} ->
               IF variant = "LengthDelimited" THEN Ok(f.data.value) ELSE Err
          [] ty = "()" -> Ok(<<>>)

\* Mutant of decode_from_unknown: f32 and f64 take either fixed-width variant
decode_from_unknown_any_fixed(ty, f) ==
    LET variant == f.data.variant
        Ok(v) == [ok |-> TRUE, value |-> v]
        Err == [ok |-> FALSE, value |-> Default(ty)]
    IN  CASE ty = "bool" ->
               IF variant = "Varint" THEN Ok(~IsZero(f.data.value)) ELSE Err
          [] ty \in {"u32", "i32"} ->
               IF variant = "Varint" THEN Ok(Trunc32(f.data.value))
               ELSE IF variant = "ThirtyTwoBit" THEN Ok(f.data.value)
               ELSE Err
          [] ty \in {"u64", "i64"} ->
               IF variant \in {"SixtyFourBit", "Varint"} THEN Ok(f.data.value) ELSE Err
          [] ty \in {"f32", "f64"} ->
               IF variant \in {"ThirtyTwoBit", "SixtyFourBit"} THEN Ok(f.data.value) ELSE Err
          [] ty = "String" ->
               IF variant = "LengthDelimited" /\ Utf8Valid(f.data.value)
               THEN Ok(f.data.value) ELSE Err
          [] ty \in {"Vec<u8>", "Bytes"} ->
               IF variant = "LengthDelimited" THEN Ok(f.data.value) ELSE Err
          [] ty = "()" -> Ok(<<>>)

\* Message::decode_from_unknown: Result<Self, DecodeError> as [ok, value]
decode_from_unknown(ty, f) ==
    LET variant == f.data.variant
        Ok(v) == [ok |-> TRUE, value |-> v]
        Err == [ok |-> FALSE, value |-> Default(ty)]
    IN  CASE ty = "bool" ->
               IF variant = "Varint" THEN Ok(~IsZero(f.data.value)) ELSE Err
          [] ty \in {"u32", "i32"} ->
               IF variant = "Varint" THEN Ok(Trunc32(f.data.value))
               ELSE IF variant = "ThirtyTwoBit" THEN Ok(f.data.value)
               ELSE Err
          [] ty \in {"u64", "i64"} ->
               IF variant \in {"SixtyFourBit", "Varint"} THEN Ok(f.data.value) ELSE Err
          [] ty = "f32" -> IF variant = "ThirtyTwoBit" THEN Ok(f.data.value) ELSE Err
          [] ty = "f64" -> IF variant = "SixtyFourBit" THEN Ok(f.data.value) ELSE Err
          [] ty = "String" ->
               IF variant = "LengthDelimited" /\ Utf8Valid(f.data.value)
               THEN Ok(f.data.value) ELSE Err
          [] ty \in {"Vec<u8>", "Bytes"} ->
               IF variant = "LengthDelimited" THEN Ok(f.data.value) ELSE Err
          [] ty = "()" -> Ok(<<>>)

\* Message::get_unknown_fields of a message that embeds an UnknownFieldSet
get_unknown_fields(d) ==
    IF d.some THEN [opt |-> "Some", map |-> d.map] ELSE [opt |-> "None", map |-> EmptyMap]

\* Option::map(F::decode_from_unknown) on Some(entry)
SomeResult(r) == [opt |-> "Some", ok |-> r.ok, value |-> r.value]

\* Mutant of get_in: a failed decode is flattened into None
get_in_flattened(field_number, F, m1) ==
    IF /\ m1.opt = "Some"
       /\ field_number \in DOMAIN m1.map
       /\ decode_from_unknown(F, m1.map[field_number]).ok
    THEN SomeResult(decode_from_unknown(F, m1.map[field_number]))
    ELSE [opt |-> "None", ok |-> TRUE, value |-> Default(F)]

\* .and_then(|m1| m1.get(&self.field_number)).map(F::decode_from_unknown)
get_in(field_number, F, m1) ==
    IF m1.opt = "Some" /\ field_number \in DOMAIN m1.map
    THEN SomeResult(decode_from_unknown(F, m1.map[field_number]))
    ELSE [opt |-> "None", ok |-> TRUE, value |-> Default(F)]

\* ExtFieldOptional::get: Option<Result<F, DecodeError>> as [opt, ok, value]
get(field_number, F, d) == get_in(field_number, F, get_unknown_fields(d))

(***************************************************************************)
(* Inputs.                                                                 *)
(***************************************************************************)

\* Field numbers the generated decode loop hands over (valid tags).
Tags == {1, 3, 5}

U64MaxVarint == <<255, 255, 255, 255, 255, 255, 255, 255, 255, 1>>

In(wire_type, buf) == [wire_type |-> wire_type, buf |-> buf]

\* The payload buffers handed to skip_unknown_field / merge_field with a tag:
\* well-formed payloads (some followed by the next field's bytes) and
\* truncated or malformed ones.
Inputs(tag) ==
    { In("Varint", <<5>>), In("Varint", <<172, 2, 8>>), In("Varint", U64MaxVarint),
      In("Varint", <<128>>), In("Varint", <<>>),
      In("ThirtyTwoBit", <<6, 0, 0, 0>>), In("ThirtyTwoBit", <<253, 255, 255, 255, 8>>),
      In("ThirtyTwoBit", <<1, 2, 3>>),
      In("SixtyFourBit", <<16, 0, 0, 0, 0, 0, 0, 0>>),
      In("SixtyFourBit", <<1, 2, 3, 4, 5, 6, 7>>),
      In("LengthDelimited", <<2, 104, 105>>), In("LengthDelimited", <<0, 8>>),
      In("LengthDelimited", <<2, 195, 40>>), In("LengthDelimited", <<3, 104, 105>>),
      In("LengthDelimited", <<128>>),
      In("StartGroup", <<8, 5>> \o encode_key(tag, "EndGroup")),
      In("StartGroup", <<8, 5>>),
      In("EndGroup", <<>>), In("EndGroup", <<5>>) }

\* Values a wrapper is constructed with.
WrapperValues(ty) ==
    CASE ty = "bool" -> {FALSE, TRUE}
      [] ty \in {"u32", "i32"} ->
           {Zeros(32), NatToBits(5, 32), NatToBits(300, 32), Ones(32),
            Zeros(31) \o <<1>>}
      [] ty \in {"u64", "i64"} ->
           {Zeros(64), NatToBits(15, 64), Ones(64), Zeros(63) \o <<1>>,
            Zeros(32) \o <<1>> \o Zeros(31)}
      [] ty = "f32" ->
           {Zeros(32), Zeros(31) \o <<1>>, BytesToBits(<<0, 0, 8, 193>>),
            BytesToBits(<<0, 0, 192, 127>>)}
      [] ty = "f64" ->
           {Zeros(64), Zeros(63) \o <<1>>, BytesToBits(<<0, 0, 0, 0, 0, 0, 37, 64>>)}
      [] ty = "String" -> {<<>>, <<104, 105>>, <<195, 169>>}
      [] ty \in {"Vec<u8>", "Bytes"} -> {<<>>, <<0>>, <<195, 40>>}
      [] ty = "()" -> {<<>>}

(***************************************************************************)
(* State.                                                                  *)
(***************************************************************************)

VARIABLES
    kind,   \* the Message under test: "Message" (a derived message that
            \* embeds an UnknownFieldSet) or one of WrapperTypes
    data,   \* UnknownFieldSet.data of the message
    value,  \* *self of the wrapper
    ret,    \* the call that has just returned, with its arguments and result
    log     \* the fields handed to skip_unknown_field with result Ok during
            \* the decode in progress (SpecDecode only)

vars == <<kind, data, value, ret, log>>

NoRet == [op |-> "none"]

Init ==
    /\ kind \in {"Message"} \cup WrapperTypes
    /\ data = None
    /\ value \in (IF kind = "Message" THEN {<<>>} ELSE WrapperValues(kind))
    /\ ret = NoRet
    /\ log = <<>>

Idle(k) == kind \in k /\ ret.op = "none"

\* The call self.skip_unknown_field(tag, wire_type, buf, ctx)
SkipCall(tag, wire_type, buf) ==
    /\ ret' = [op |-> "skip_unknown_field", tag |-> tag, wire_type |-> wire_type,
               buf |-> buf, res |-> parse(tag, wire_type, buf)]
    /\ data' = skip_result(data, tag, ret'.res).data
    /\ UNCHANGED <<kind, value>>

SkipUnknownField(tag, wire_type, buf) ==
    /\ Idle({"Message"})
    /\ SkipCall(tag, wire_type, buf)
    /\ UNCHANGED log

Encode ==
    /\ Idle({"Message"})
    /\ ret' = [op |-> "encode", bytes |-> encode(data)]
    /\ UNCHANGED <<kind, data, value, log>>

EncodedLen ==
    /\ Idle({"Message"})
    /\ ret' = [op |-> "encoded_len", len |-> encoded_len(data)]
    /\ UNCHANGED <<kind, data, value, log>>

Get(field_number, F) ==
    /\ Idle({"Message"})
    /\ ret' = [op |-> "get", field_number |-> field_number, F |-> F,
               res |-> get(field_number, F, data)]
    /\ UNCHANGED <<kind, data, value, log>>

\* A clear that empties the map in place and keeps the allocation
ClearInPlace ==
    /\ Idle({"Message"})
    /\ data' = [some |-> data.some, map |-> EmptyMap]
    /\ ret' = [op |-> "clear"]
    /\ UNCHANGED <<kind, value, log>>

\* The derived clear of the unknown-field store: ident = Default::default()
Clear ==
    /\ Idle({"Message"})
    /\ data' = None
    /\ ret' = [op |-> "clear"]
    /\ UNCHANGED <<kind, value, log>>

EncodeRaw ==
    /\ Idle(WrapperTypes)
    /\ ret' = [op |-> "encode_raw", bytes |-> encode_raw(kind, value)]
    /\ UNCHANGED <<kind, data, value, log>>

MergeField(tag, wire_type, buf) ==
    /\ Idle(WrapperTypes)
    /\ ret' = [op |-> "merge_field", tag |-> tag, wire_type |-> wire_type,
               buf |-> buf, res |-> merge_field(kind, value, tag, wire_type, buf)]
    /\ value' = ret'.res.value
    /\ UNCHANGED <<kind, data, log>>

WrapperEncodedLen ==
    /\ Idle(WrapperTypes)
    /\ ret' = [op |-> "wrapper_encoded_len", len |-> wrapper_encoded_len(kind, value)]
    /\ UNCHANGED <<kind, data, value, log>>

WrapperClear ==
    /\ Idle(WrapperTypes)
    /\ value' = wrapper_clear(kind, value)
    /\ ret' = [op |-> "wrapper_clear"]
    /\ UNCHANGED <<kind, data, log>>

\* The caller takes the result; the next call can start.
Return ==
    /\ ret.op # "none"
    /\ ret' = NoRet
    /\ UNCHANGED <<kind, data, value, log>>

Next ==
    \/ \E tag \in Tags : \E i \in Inputs(tag) : SkipUnknownField(tag, i.wire_type, i.buf)
    \/ Encode
    \/ EncodedLen
    \/ \E field_number \in Tags : \E F \in WrapperTypes : Get(field_number, F)
    \/ Clear
    \/ EncodeRaw
    \/ \E tag \in {1, 3} : \E i \in Inputs(tag) : MergeField(tag, i.wire_type, i.buf)
    \/ WrapperEncodedLen
    \/ WrapperClear
    \/ Return

Spec == Init /\ [][Next]_vars

(***************************************************************************)
(* One decode followed by one encode: the generated decode loop hands each *)
(* unrecognized field of the input to skip_unknown_field and stops at the  *)
(* first error; log records the fields handed over with result Ok.         *)
(***************************************************************************)

DecodeInputs(tag) ==
    { In("Varint", <<5>>), In("Varint", U64MaxVarint),
      In("ThirtyTwoBit", <<6, 0, 0, 0>>),
      In("LengthDelimited", <<2, 104, 105>>),
      In("StartGroup", <<8, 5>> \o encode_key(tag, "EndGroup")),
      In("EndGroup", <<>>) }

InitDecode ==
    /\ kind = "Message"
    /\ data = None
    /\ value = <<>>
    /\ ret = NoRet
    /\ log = <<>>

Decoding == ret.op = "none" \/ (ret.op = "skip_unknown_field" /\ ret.res.ok)

Logged(l, r) ==
    IF r.res.ok
    THEN Append(l, [tag |-> r.tag, wire_type |-> r.wire_type, stored |-> r.res.opt = "Some",
                    field |-> r.res.field])
    ELSE l

DecodeField(tag, wire_type, buf) ==
    /\ Decoding
    /\ Len(log) < MaxCalls
    /\ SkipCall(tag, wire_type, buf)
    /\ log' = Logged(log, ret')

DecodeEncode ==
    /\ Decoding
    /\ ret' = [op |-> "encode", bytes |-> encode(data)]
    /\ UNCHANGED <<kind, data, value, log>>

NextDecode ==
    \/ \E tag \in Tags : \E i \in DecodeInputs(tag) : DecodeField(tag, i.wire_type, i.buf)
    \/ DecodeEncode

SpecDecode == InitDecode /\ [][NextDecode]_vars

(***************************************************************************)
(* The generated decode loop (Message::merge) of a message whose every     *)
(* field is unrecognized: decode_key, then skip_unknown_field, until the   *)
(* buffer is empty.                                                        *)
(***************************************************************************)

RECURSIVE merge_loop(_, _)
merge_result(buf, r) ==
    IF ~r.ok THEN [ok |-> FALSE, data |-> r.data, rest |-> buf] ELSE merge_loop(r.data, r.rest)

merge_key(d, buf, k) ==
    IF ~k.ok THEN [ok |-> FALSE, data |-> d, rest |-> buf]
    ELSE merge_result(buf, skip_unknown_field(d, k.tag, k.wire_type, k.rest))

merge_loop(d, buf) ==
    IF buf = <<>> THEN [ok |-> TRUE, data |-> d, rest |-> buf]
    ELSE merge_key(d, buf, decode_key(buf))

\* The fields of a wire stream, in wire order, each as a log entry
RECURSIVE FieldsFrom(_)
FieldsParsed(k, p) ==
    IF ~p.ok THEN <<>>
    ELSE <<[tag |-> k.tag, wire_type |-> k.wire_type, stored |-> p.opt = "Some",
            field |-> p.field]>> \o FieldsFrom(p.rest)

FieldsKey(k) == IF ~k.ok THEN <<>> ELSE FieldsParsed(k, parse(k.tag, k.wire_type, k.rest))

FieldsFrom(buf) == IF buf = <<>> THEN <<>> ELSE FieldsKey(decode_key(buf))

Present(e, fields) == \E j \in 1..Len(fields) : fields[j] = e

StoredIdx(n) == {i \in 1..Len(log) : log[i].stored /\ log[i].tag = n}

LastIdx(idx) == CHOOSE i \in idx : \A j \in idx : j <= i

\* The set built by the storing calls of l, in the order of l
RECURSIVE BuildSet(_, _)
BuildSet(d, l) ==
    IF l = <<>> THEN d
    ELSE BuildSet(IF Head(l).stored THEN insert(d, Head(l).tag, Head(l).field) ELSE d, Tail(l))

Orderings(n) == {p \in [1..n -> 1..n] : \A i, j \in 1..n : p[i] = p[j] => i = j}

\* The fields f are exactly the entries of d, by strictly ascending field number
EmitsAscending(f, d) ==
    /\ \A i, j \in 1..Len(f) : i < j => f[i].tag < f[j].tag
    /\ {f[i].field : i \in 1..Len(f)} = {d.map[n] : n \in DOMAIN d.map}

DistinctTags(l) == \A i, j \in 1..Len(l) : l[i].tag = l[j].tag => i = j

(***************************************************************************)
(* Claims.                                                                 *)
(***************************************************************************)

\* C1: no unknown data is discarded in a decode/encode cycle: after a decode
\* in which every skip_unknown_field call returned Ok, every field occurrence
\* that was handed in (field number, wire type, payload) is present in the
\* bytes UnknownFieldSet::encode writes.
C1_NoUnknownDataDiscarded ==
    ret.op = "encode" =>
        \A i \in 1..Len(log) : Present(log[i], FieldsFrom(ret.bytes))

\* C2: structural round trip: the bytes UnknownFieldSet::encode writes for
\* the set S, fed key by key through skip_unknown_field of a fresh set, are
\* consumed exactly and yield a set equal to S.
C2_StructuralRoundTrip ==
    ret.op = "encode" =>
        merge_loop(None, ret.bytes) = [ok |-> TRUE, data |-> data, rest |-> <<>>]

C2_Witness ==
    /\ ret.op = "encode"
    /\ data.some
    /\ DOMAIN data.map = Tags
    /\ data.map[1].data = UnknownFieldData("Varint", Ones(64))
    /\ data.map[3].data = UnknownFieldData("SixtyFourBit", NatToBits(16, 64))
    /\ data.map[5].data = UnknownFieldData("LengthDelimited", <<104, 105>>)

\* C3: UnknownFieldSet::encode emits the stored fields in strictly ascending
\* field-number order whatever the insertion order: the output holds exactly
\* the stored entries, its field numbers ascend strictly, and the set built
\* from any permutation of the same insertions with distinct field numbers
\* encodes to the same bytes.
C3_AscendingOrder ==
    ret.op = "encode" =>
        /\ EmitsAscending(FieldsFrom(ret.bytes), data)
        /\ DistinctTags(log) =>
              \A p \in Orderings(Len(log)) :
                 encode(BuildSet(None, [i \in 1..Len(log) |-> log[p[i]]])) = ret.bytes

C3_Witness ==
    /\ ret.op = "encode"
    /\ Len(log) = 3
    /\ log[1].tag = 5 /\ log[2].tag = 1 /\ log[3].tag = 3
    /\ \A i \in 1..3 : log[i].stored
    /\ Len(FieldsFrom(ret.bytes)) = 3
    /\ FieldsFrom(ret.bytes)[1].tag = 1
    /\ FieldsFrom(ret.bytes)[2].tag = 3
    /\ FieldsFrom(ret.bytes)[3].tag = 5

\* C4: last write wins: after any sequence of successful skip_unknown_field
\* calls the set holds one entry per field number that a storing call named,
\* and the entry for n is the field stored by the most recent storing call
\* for n.
C4_LastWriteWins ==
    /\ data.some = (\E i \in 1..Len(log) : log[i].stored)
    /\ DOMAIN data.map = {log[i].tag : i \in {j \in 1..Len(log) : log[j].stored}}
    /\ \A n \in DOMAIN data.map :
          /\ data.map[n].tag = n
          /\ data.map[n] = log[LastIdx(StoredIdx(n))].field

C4_Witness ==
    /\ Len(log) = 3
    /\ log[1].tag = 3 /\ log[2].tag = 3 /\ log[3].tag = 1
    /\ \A i \in 1..3 : log[i].stored
    /\ log[1].field # log[2].field
    /\ data.map[3] = log[2].field

\* The failures of parse the claim lists, read off the call's arguments
ListedFailure(wire_type, buf) ==
    \/ wire_type = "Varint" /\ \A i \in 1..Len(buf) : buf[i] >= 128
    \/ wire_type = "ThirtyTwoBit" /\ Len(buf) < 4
    \/ wire_type = "SixtyFourBit" /\ Len(buf) < 8
    \/ /\ wire_type = "LengthDelimited"
       /\ decode_varint(buf).ok
       /\ ExceedsNat(decode_varint(buf).value, Len(decode_varint(buf).rest))
    \/ wire_type = "EndGroup"

\* C5: a skip_unknown_field call that fails returns the decode error and
\* inserts nothing, so the set is what it was before the call; an
\* unterminated varint, a short Fixed32 / Fixed64 buffer, a LengthDelimited
\* payload shorter than its prefix and every EndGroup are such failures.
C5_FailureInsertsNothing ==
    [][ret'.op = "skip_unknown_field" =>
          /\ ListedFailure(ret'.wire_type, ret'.buf) =>
                (ret'.res.opt = "Some" /\ ~ret'.res.ok)
          /\ (ret'.res.opt = "Some" /\ ~ret'.res.ok) => data' = data]_vars

C5_Witness ==
    /\ ret.op = "skip_unknown_field"
    /\ ret.wire_type = "LengthDelimited"
    /\ ret.res.opt = "Some" /\ ~ret.res.ok
    /\ data.some
    /\ ret.tag \in DOMAIN data.map

\* C6 as stated: once a field has been inserted, data is Some in every later
\* state, the parent message's clear included.
C6_StorageNeverCollapsed == [][data.some => data'.some]_vars

\* C6 as amended: once a field has been inserted, data stays Some across
\* every following skip_unknown_field, encode, encoded_len and extension
\* get; the parent message's clear resets data to None.
C6_StorageKeptUntilClear ==
    [][IF ret'.op = "clear" THEN data' = None ELSE data.some => data'.some]_vars

C6_Witness ==
    /\ ret.op = "skip_unknown_field"
    /\ ret.res.opt = "None"
    /\ data.some

NumericTypes == {"u32", "u64", "i32", "i64", "f32", "f64"}

\* C7: ExtFieldOptional::get returns None exactly when the set has no entry
\* for the field number (no backing storage included), never an error then;
\* with an entry it returns Some of decode_from_unknown on the entry, so a
\* LengthDelimited entry asked for as a numeric scalar is Some(Err).
C7_GetAbsentOrDecoded ==
    ret.op = "get" =>
        IF data.some /\ ret.field_number \in DOMAIN data.map
        THEN /\ ret.res.opt = "Some"
             /\ ret.res.ok = decode_from_unknown(ret.F, data.map[ret.field_number]).ok
             /\ ret.res.value = decode_from_unknown(ret.F, data.map[ret.field_number]).value
             /\ (/\ data.map[ret.field_number].data.variant = "LengthDelimited"
                 /\ ret.F \in NumericTypes) => ~ret.res.ok
        ELSE ret.res.opt = "None" /\ ret.res.ok

C7_Witness ==
    /\ ret.op = "get"
    /\ ret.F = "u32"
    /\ data.some
    /\ ret.field_number \in DOMAIN data.map
    /\ data.map[ret.field_number].data.variant = "LengthDelimited"
    /\ ret.res.opt = "Some"
    /\ ~ret.res.ok

\* The stored variants each target type decodes from
Accepts(ty, d) ==
    CASE ty = "bool" -> d.variant = "Varint"
      [] ty \in {"u32", "i32"} -> d.variant \in {"Varint", "ThirtyTwoBit"}
      [] ty \in {"u64", "i64"} -> d.variant \in {"Varint", "SixtyFourBit"}
      [] ty = "f32" -> d.variant = "ThirtyTwoBit"
      [] ty = "f64" -> d.variant = "SixtyFourBit"
      [] ty = "String" -> d.variant = "LengthDelimited" /\ Utf8Valid(d.value)
      [] ty \in {"Vec<u8>", "Bytes"} -> d.variant = "LengthDelimited"
      [] ty = "()" -> TRUE

\* The same with bool also decoding from the fixed-width variant of its
\* group bool/u32/i32
AcceptsWithBoolFixed(ty, d) ==
    IF ty = "bool" THEN d.variant \in {"Varint", "ThirtyTwoBit"} ELSE Accepts(ty, d)

Decoded == ret.op = "get" /\ ret.res.opt = "Some"

\* C8 as stated: decode_from_unknown succeeds exactly on the compatible
\* (type, variant) pairs, bool succeeding on Varint and on a fixed-width
\* variant.
C8_BoolDecodesFixedWidth ==
    Decoded => (ret.res.ok <=> AcceptsWithBoolFixed(ret.F, data.map[ret.field_number].data))

\* C8 as amended: decode_from_unknown succeeds exactly on the compatible
\* (type, variant) pairs, bool succeeding on Varint only; every other pair
\* is a decode error without a value.
C8_WireShapeCompatibility ==
    Decoded =>
        /\ ret.res.ok <=> Accepts(ret.F, data.map[ret.field_number].data)
        /\ ~ret.res.ok => ret.res.value = Default(ret.F)

C8_Witness ==
    /\ Decoded
    /\ ret.F = "bool"
    /\ data.map[ret.field_number].data.variant = "ThirtyTwoBit"
    /\ ~ret.res.ok

\* Message::merge of a wrapper: decode_key, then merge_field, until the
\* buffer is empty
RECURSIVE wrapper_merge(_, _, _)
wrapper_merged(ty, buf, r) ==
    IF ~r.ok THEN [ok |-> FALSE, value |-> r.value, rest |-> buf]
    ELSE wrapper_merge(ty, r.value, r.rest)

wrapper_merge_key(ty, v, buf, k) ==
    IF ~k.ok THEN [ok |-> FALSE, value |-> v, rest |-> buf]
    ELSE wrapper_merged(ty, buf, merge_field(ty, v, k.tag, k.wire_type, k.rest))

wrapper_merge(ty, v, buf) ==
    IF buf = <<>> THEN [ok |-> TRUE, value |-> v, rest |-> buf]
    ELSE wrapper_merge_key(ty, v, buf, decode_key(buf))

\* false / 0 / 0.0 (of either sign) / empty / unit
IsDefaultValue(ty, v) ==
    IF ty \in {"f32", "f64"} THEN IsZero(SubSeq(v, 1, Len(v) - 1)) ELSE v = Default(ty)

\* C9: encode_raw of a wrapper's default value writes zero bytes; encode_raw
\* of a non-default value writes field number 1, and merging these bytes
\* into a default instance gives back the value.
C9_DefaultOmissionRoundTrip ==
    ret.op = "encode_raw" =>
        IF IsDefaultValue(kind, value)
        THEN ret.bytes = <<>>
        ELSE /\ decode_key(ret.bytes).ok
             /\ decode_key(ret.bytes).tag = 1
             /\ wrapper_merge(kind, Default(kind), ret.bytes)
                   = [ok |-> TRUE, value |-> value, rest |-> <<>>]

C9_Witness ==
    /\ ret.op = "encode_raw"
    /\ kind = "i32"
    /\ value = Ones(32)
    /\ Len(ret.bytes) = 11

\* C10: UnknownFieldSet::encoded_len is the number of bytes
\* UnknownFieldSet::encode writes (0 for a set without entries), and a
\* wrapper's encoded_len is the number of bytes its encode_raw writes (0 for
\* a default value, 2 for bool true).
C10_EncodedLenAgrees ==
    /\ ret.op = "encoded_len" =>
          /\ ret.len = Len(encode(data))
          /\ DOMAIN data.map = {} => ret.len = 0
    /\ ret.op = "wrapper_encoded_len" =>
          /\ ret.len = Len(encode_raw(kind, value))
          /\ IsDefaultValue(kind, value) => ret.len = 0
          /\ (kind = "bool" /\ value) => ret.len = 2

C10_Witness ==
    /\ ret.op = "encoded_len"
    /\ data.some
    /\ DOMAIN data.map = Tags
    /\ data.map[1].data = UnknownFieldData("Varint", Ones(64))
    /\ data.map[3].data.variant = "ThirtyTwoBit"
    /\ data.map[5].data = UnknownFieldData("LengthDelimited", <<104, 105>>)
    /\ ret.len = 20

(***************************************************************************)
(* prost-derive: the recognizer of the unknown-field store marker.  An     *)
(* attribute is a syn::Meta: a path alone (unknown_field_set), a list      *)
(* (unknown_field_set(..)) or a name-value pair (unknown_field_set = ..).  *)
(***************************************************************************)

MaxAttrs == 2

MetaForms == {"Path", "List", "NameValue"}

MetaPaths == {"unknown_field_set", "message", "tag"}

Meta(path, form) == [path |-> path, form |-> form]

Metas == {Meta(p, f) : p \in MetaPaths, f \in MetaForms}

AttrLists == UNION {[1..n -> Metas] : n \in 0..MaxAttrs}

\* Meta::path().is_ident(name): the path of any of the three forms
is_ident(meta, name) == meta.path = name

Bail == [ok |-> FALSE, opt |-> "None"]

OkSome == [ok |-> TRUE, opt |-> "Some"]

OkNone == [ok |-> TRUE, opt |-> "None"]

\* Field::new(attrs)
new(attrs) ==
    IF Len(attrs) # 1 THEN Bail
    ELSE IF is_ident(attrs[1], "unknown_field_set") THEN OkSome
    ELSE OkNone

InitDerive ==
    /\ kind = "Field"
    /\ data = None
    /\ value = <<>>
    /\ ret = NoRet
    /\ log = <<>>

FieldNew(attrs) ==
    /\ Idle({"Field"})
    /\ value' = attrs
    /\ ret' = [op |-> "new", res |-> new(attrs)]
    /\ UNCHANGED <<kind, data, log>>

NextDerive ==
    \/ \E attrs \in AttrLists : FieldNew(attrs)
    \/ Return

SpecDerive == InitDerive /\ [][NextDerive]_vars

BareMarker == <<Meta("unknown_field_set", "Path")>>

\* C11: Field::new returns an error when zero or more than one attribute is
\* given and when the unknown_field_set annotation carries arguments; it
\* returns the field only for exactly one bare unknown_field_set
\* annotation, and Ok(None) for a single attribute with a different name.
C11_MarkerValidated ==
    ret.op = "new" =>
        /\ Len(value) # 1 => ret.res = Bail
        /\ (Len(value) = 1 /\ is_ident(value[1], "unknown_field_set")
               /\ value[1].form # "Path") => ret.res = Bail
        /\ ret.res = OkSome <=> value = BareMarker
        /\ (Len(value) = 1 /\ ~is_ident(value[1], "unknown_field_set")) => ret.res = OkNone

Stores(r) == r.op = "skip_unknown_field" /\ r.res.ok /\ r.res.opt = "Some"

\* C12: a freshly constructed (Default) UnknownFieldSet has data = None; a
\* successful storing skip_unknown_field leaves it with backing storage
\* (holding exactly that field when it was the first insertion); and in
\* every state reachable by skip_unknown_field calls (storing, failing or
\* group-skipping), encode, encoded_len and clear, data being Some implies
\* that the contained map is non-empty.
C12_RepresentationInvariant ==
    /\ kind = "Message" => data = None
    /\ [](data.some => DOMAIN data.map # {})
    /\ [](~data.some => data = None)
    /\ [][Stores(ret') =>
            /\ data'.some
            /\ ret'.tag \in DOMAIN data'.map
            /\ ~data.some => data'.map = MapInsert(EmptyMap, ret'.tag, ret'.res.field)]_vars
    /\ [][ret'.op = "clear" => data' = None]_vars

\* a set holding exactly the one field the call has just stored
C12_Witness ==
    /\ Stores(ret)
    /\ ret.wire_type = "LengthDelimited"
    /\ data.some
    /\ DOMAIN data.map = {ret.tag}
    /\ ret.tag = 5

(***************************************************************************)
(* Typed reads of one stored field: a message whose unknown-field set      *)
(* holds one integer field, as skip_unknown_field stored it, read through  *)
(* ExtFieldOptional::get as each of the wrapper types.                     *)
(***************************************************************************)

\* The i32 / i64 with value -n (n > 0 small), two's complement
Neg(n, w) == Not(NatToBits(n - 1, w))

\* u64 payloads: small values (among them the zig-zag encodings of -1, 3, -4,
\* 13 and -14), values with bits above bit 31, and the varints of the
\* signed values -3, -17 and -1
U64Samples ==
    { Zeros(64), NatToBits(1, 64), NatToBits(6, 64), NatToBits(7, 64), NatToBits(26, 64),
      NatToBits(27, 64), NatToBits(300, 64),
      NatToBits(7, 32) \o <<1>> \o Zeros(31),
      Zeros(31) \o <<1>> \o Zeros(32),
      Ones(32) \o Zeros(32),
      Zeros(63) \o <<1>>,
      Neg(3, 64), Neg(17, 64), Ones(64) }

U32Samples ==
    { Zeros(32), NatToBits(6, 32), NatToBits(7, 32), Zeros(31) \o <<1>>, Neg(3, 32), Ones(32) }

TypedInputs ==
    {In("Varint", encode_varint(v)) : v \in U64Samples}
        \cup {In("SixtyFourBit", put_u64_le(v)) : v \in U64Samples}
        \cup {In("ThirtyTwoBit", put_u32_le(w)) : w \in U32Samples}

InitTyped ==
    /\ kind = "Message"
    /\ \E tag \in Tags : \E i \in TypedInputs :
          data = skip_unknown_field(None, tag, i.wire_type, i.buf).data
    /\ value = <<>>
    /\ ret = NoRet
    /\ log = <<>>

NextTyped ==
    \/ \E field_number \in Tags : \E F \in WrapperTypes : Get(field_number, F)
    \/ Return

SpecTyped == InitTyped /\ [][NextTyped]_vars

\* The signed reading of 32 bits
I32(b) ==
    IF b[32] = 1 THEN (BitsToNat(SubSeq(b, 1, 31)) - 2147483647) - 1
    ELSE BitsToNat(SubSeq(b, 1, 31))

\* v mod 2^32 of a u64 v: the bits 0..31 of v
Mod32(v, r) == Len(r) = 32 /\ \A i \in 1..32 : r[i] = v[i]

\* the signed integers whose zig-zag encodings are checked
Sint32Samples == {Zeros(32), NatToBits(3, 32), Neg(4, 32), Neg(1, 32), Zeros(31) \o <<1>>}

Sint64Samples == {Zeros(64), NatToBits(13, 64), Neg(14, 64), Neg(1, 64), Zeros(63) \o <<1>>}

TruncatedRead(F, d, r) ==
    CASE F \in {"u32", "i32"} /\ d.variant = "Varint" ->
            /\ r.ok
            /\ Mod32(d.value, r.value)
            /\ F = "i32" => I32(r.value) = I32(SubSeq(d.value, 1, 32))
      [] F \in {"u32", "i32"} /\ d.variant = "ThirtyTwoBit" -> r.ok /\ r.value = d.value
      [] F \in {"u64", "i64"} /\ d.variant \in {"Varint", "SixtyFourBit"} ->
            r.ok /\ r.value = d.value
      [] OTHER -> TRUE

ZigZagLeftToCaller(F, d, r) ==
    /\ (F = "i32" /\ d.variant = "Varint") =>
          \A n \in Sint32Samples :
              d.value = ZeroExt64(ZigZag(n)) =>
                  /\ r.value = ZigZag(n)
                  /\ UnZigZag(r.value) = n
                  /\ r.value = n <=> IsZero(n)
                  /\ n = Neg(4, 32) => (I32(r.value) = 7 /\ I32(sint32(r.value)) = -4)
    /\ (F = "i64" /\ d.variant = "Varint") =>
          \A n \in Sint64Samples :
              d.value = ZigZag(n) =>
                  /\ r.value = ZigZag(n)
                  /\ UnZigZag(r.value) = n
                  /\ r.value = n <=> IsZero(n)
                  /\ n = Neg(14, 64) => (r.value = NatToBits(27, 64) /\ sint64(r.value) = n)

\* C13: typed integer decode reinterprets bits by truncation, never by
\* zig-zag unmapping: Varint(v) read as u32 is v mod 2^32 and as i32 its
\* signed reading; Fixed32(w) reads as w; Varint(v) and Fixed64(v) read as
\* u64 / i64 as v; a sint32 / sint64 value comes back as its zig-zag
\* encoding and is recovered by unmapping the result, as the test's sint32
\* and sint64 helpers do for -4 and -14.
C13_TruncationNotZigZag ==
    Decoded =>
        /\ TruncatedRead(ret.F, data.map[ret.field_number].data, ret.res)
        /\ ZigZagLeftToCaller(ret.F, data.map[ret.field_number].data, ret.res)

\* Varint(2^32 + 7) read as i32: bit 32 is cut off, 7 is returned, and
\* the caller's sint32 turns it into -4
C13_Witness ==
    /\ Decoded
    /\ ret.F = "i32"
    /\ data.map[ret.field_number].data
          = UnknownFieldData("Varint", NatToBits(7, 32) \o <<1>> \o Zeros(31))
    /\ ret.res.ok
    /\ I32(ret.res.value) = 7
    /\ I32(sint32(ret.res.value)) = -4

====
